---------------------------- MODULE Spec2Model ----------------------------
(***************************************************************************)
(* A model of the xunit-autolabeler snippet/test correlation tooling:      *)
(*   - ast_parser/core/analyze.py      analyze_json                        *)
(*   - ast_parser/core/cli.py          inject_snippet_mapping              *)
(*   - ast_parser/python/test_parser.py  get_test_methods,                 *)
(*         get_test_key_to_snippet_map, store_tests_on_methods             *)
(*   - the source parser exercised by wizard-py/parser_test.py            *)
(* Strings are TLA+ strings; Len, SubSeq and \o act on their characters,   *)
(* so joins, splits, prefixes and substring tests are computed, not        *)
(* assumed.                                                                *)
(***************************************************************************)
EXTENDS Integers, Sequences, FiniteSets, TLC

VARIABLES
    \* analyze_json (analyze.py)
    an_pc,            \* position inside analyze_json
    json_methods,     \* the input artifact, as loaded by json.loads
    scanned,          \* source files the loop of lines 17-28 has processed
    grep_tags,        \* "detected tags"
    ignored_tags,     \* tags ignored by a marker (the value before line 62)
    source_methods,   \* the filtered, deduplicated methods
    source_tags,      \* "source tags"
    ret_ignored,      \* the third component of the returned tuple
    \* inject_snippet_mapping (cli.py)
    xunit_in,         \* the testcase elements as read from stdin
    xunit_tree,       \* the testcase elements of the tree being rewritten
    elem_idx,         \* how many testcase elements the loop has processed
    inj_err,          \* TRUE once the call has raised
    \* get_test_key_to_snippet_map and store_tests_on_methods (test_parser.py)
    cor_pc,           \* "map", "store", "done", "raised_map", "raised_store"
    test_methods,     \* the test nodes handed to get_test_key_to_snippet_map
    tm_idx,           \* how many of them the loop of line 163 has processed
    test_to_method_key_map,
    sm_count,         \* how many source methods the loop of line 197 has taken
    method_in,        \* <<drift>> of the source method taken last, as passed in
    method_out,       \* <<drift>> of that method now
    \* get_test_methods (test_parser.py)
    tf_pc,            \* "open", "check", "returned", "raised", "warned"
    tf_path,          \* test_path
    tf_readable,      \* whether open(test_path) succeeds
    parsed_nodes,     \* the child nodes of the parsed module
    test_nodes,       \* the result of _get_test_nodes, test_path set
    tf_result,        \* the list get_test_methods returned
    \* the source parser: get_top_level_methods, get_region_tag_regions,
    \* add_region_tags_to_methods
    ex_pc,            \* "parse", "scan", "tag", "done"
    ex_functions,     \* the top-level function definitions of the source file
    ex_methods,       \* the list get_top_level_methods returned
    ex_regions,       \* the regions get_region_tag_regions returned
    \* __recursor__ (test_parser.py) on one statement
    rs_pc,            \* "walk", "returned", "raised"
    rs_expr,          \* the node handed to __recursor__
    rs_result         \* the list it returned

anVars == <<an_pc, json_methods, scanned, grep_tags, ignored_tags,
            source_methods, source_tags, ret_ignored>>

injVars == <<xunit_in, xunit_tree, elem_idx, inj_err>>

corVars == <<cor_pc, test_methods, tm_idx, test_to_method_key_map, sm_count,
             method_in, method_out>>

tfVars == <<tf_pc, tf_path, tf_readable, parsed_nodes, test_nodes, tf_result>>

exVars == <<ex_pc, ex_functions, ex_methods, ex_regions>>

rsVars == <<rs_pc, rs_expr, rs_result>>

vars == <<anVars, injVars, corVars, tfVars, exVars, rsVars>>

\* what analyze_json leaves alone
notAn == <<injVars, corVars, tfVars, exVars, rsVars>>

(***************************************************************************)
(* Bounds of the model.                                                    *)
(***************************************************************************)
MaxMethods == 2
MaxTestcases == 1
MaxTests == 2
MaxSnippets == 2
MaxLine == 4

Tags == {"a", "b"}
SourceFiles == {"p/a/main.py", "p/b/util.py"}

(***************************************************************************)
(* String helpers (Python str.join, str.split, str.startswith, `in`).      *)
(***************************************************************************)
RECURSIVE JoinStr(_, _)
JoinStr(sep, seq) ==
    IF seq = <<>> THEN ""
    ELSE IF Len(seq) = 1 THEN seq[1]
    ELSE seq[1] \o sep \o JoinStr(sep, Tail(seq))

CharAt(s, i) == SubSeq(s, i, i)

\* str.find for a one-character needle: first index (1-based), 0 if absent
FindChar(s, c) ==
    IF \E i \in 1..Len(s) : CharAt(s, i) = c
    THEN CHOOSE i \in 1..Len(s) :
            CharAt(s, i) = c /\ \A j \in 1..(i - 1) : CharAt(s, j) # c
    ELSE 0

\* str.rfind for a one-character needle: last index (1-based), 0 if absent
RFindChar(s, c) ==
    IF \E i \in 1..Len(s) : CharAt(s, i) = c
    THEN CHOOSE i \in 1..Len(s) :
            CharAt(s, i) = c /\ \A j \in (i + 1)..Len(s) : CharAt(s, j) # c
    ELSE 0

RECURSIVE SplitStr(_, _)
SplitStr(s, c) ==
    LET i == FindChar(s, c)
    IN  IF i = 0 THEN <<s>>
        ELSE <<SubSeq(s, 1, i - 1)>> \o SplitStr(SubSeq(s, i + 1, Len(s)), c)

StartsWith(s, p) == Len(s) >= Len(p) /\ SubSeq(s, 1, Len(p)) = p

\* Python's `sub in s` on strings
StrContains(sub, s) ==
    \E i \in 0..(Len(s) - Len(sub)) : SubSeq(s, i + 1, i + Len(sub)) = sub

SeqToSet(seq) == {seq[i] : i \in 1..Len(seq)}

\* every listing of a finite set without repetition (the order of list(set(..))
\* is not specified)
Orderings(S) ==
    {s \in [1..Cardinality(S) -> S] : \A i, j \in 1..Cardinality(S) : i # j => s[i] # s[j]}

(***************************************************************************)
(* Region tag scanner: polyglot_parser.get_region_tag_regions.             *)
(* A file is its sequence of lines; a line is a START marker, an END       *)
(* marker, an ignore marker, or anything else ("code").                    *)
(***************************************************************************)
LineKinds ==
    {[k |-> "code", tag |-> ""]}
    \cup {[k |-> kind, tag |-> t] : kind \in {"start", "end", "ignore"}, t \in Tags}

FileContents == [1..MaxLine -> LineKinds]

\* index of the most recently opened, still open region of tag t (0: none)
LastOpen(open, t) ==
    IF \E j \in 1..Len(open) : open[j][1] = t
    THEN CHOOSE j \in 1..Len(open) :
            open[j][1] = t /\ \A l \in (j + 1)..Len(open) : open[l][1] # t
    ELSE 0

RemoveAt(seq, j) == SubSeq(seq, 1, j - 1) \o SubSeq(seq, j + 1, Len(seq))

RECURSIVE ScanLines(_, _, _, _, _)
ScanLines(lines, i, open, regions, ignored) ==
    IF i > Len(lines)
    THEN [regions |-> regions, ignored |-> ignored]   \* unclosed regions are dropped
    ELSE LET ln == lines[i]
             j == LastOpen(open, ln.tag)
         IN  CASE ln.k = "start" ->
                    ScanLines(lines, i + 1, Append(open, <<ln.tag, i>>), regions, ignored)
               [] ln.k = "end" /\ j # 0 ->
                    ScanLines(lines, i + 1, RemoveAt(open, j),
                              Append(regions, <<ln.tag, open[j][2], i>>), ignored)
               [] ln.k = "ignore" ->
                    ScanLines(lines, i + 1, open, regions, ignored \cup {ln.tag})
               [] OTHER ->
                    ScanLines(lines, i + 1, open, regions, ignored)

\* (region_tags, ignored_tag_names); a region is the tuple (tag, start, end)
get_region_tag_regions(lines) == ScanLines(lines, 1, <<>>, <<>>, {})

ScanResults == {get_region_tag_regions(c) : c \in FileContents}

(***************************************************************************)
(* polyglot_parser.add_region_tags_to_methods                              *)
(***************************************************************************)
\* a region counted only when it lies inside the method
Encloses(m, region) == m.start_line <= region[2] /\ region[3] <= m.end_line

Overlaps(m, region) == region[2] <= m.end_line /\ m.start_line <= region[3]

OverlapTags(m, regions) ==
    {regions[i][1] : i \in {j \in 1..Len(regions) : Overlaps(m, regions[j])}}

\* the possible results of add_region_tags_to_methods on the methods of file f
add_region_tags_to_methods(methods, f, regions) ==
    LET Cand(i) == IF methods[i].source_path = f
                   THEN {[methods[i] EXCEPT !.region_tags = o] :
                            o \in Orderings(OverlapTags(methods[i], regions))}
                   ELSE {methods[i]}
    IN  {ms \in [1..Len(methods) -> UNION {Cand(i) : i \in 1..Len(methods)}] :
            \A i \in 1..Len(methods) : ms[i] \in Cand(i)}

(***************************************************************************)
(* The values of the variables of the operations a run does not perform.   *)
(***************************************************************************)
AnIdle ==
    /\ an_pc = "idle"
    /\ json_methods = <<>>
    /\ scanned = {}
    /\ grep_tags = {}
    /\ ignored_tags = {}
    /\ source_methods = <<>>
    /\ source_tags = {}
    /\ ret_ignored = {}

InjIdle ==
    /\ xunit_in = <<>>
    /\ xunit_tree = <<>>
    /\ elem_idx = 0
    /\ inj_err = FALSE

CorIdle ==
    /\ cor_pc = "idle"
    /\ test_methods = <<>>
    /\ tm_idx = 0
    /\ test_to_method_key_map = <<>>
    /\ sm_count = 0
    /\ method_in = <<>>
    /\ method_out = <<>>

TfIdle ==
    /\ tf_pc = "idle"
    /\ tf_path = ""
    /\ tf_readable = FALSE
    /\ parsed_nodes = <<>>
    /\ test_nodes = <<>>
    /\ tf_result = <<>>

ExIdle ==
    /\ ex_pc = "idle"
    /\ ex_functions = <<>>
    /\ ex_methods = <<>>
    /\ ex_regions = <<>>

RsIdle ==
    /\ rs_pc = "idle"
    /\ rs_expr = <<>>
    /\ rs_result = <<>>

(***************************************************************************)
(* analyze.py                                                              *)
(***************************************************************************)
TestEntries == {<<"p/a/main_test.py", "test_x">>}

\* the line ranges of the top-level functions of a source file: one at the top
\* of the file, one from there to its last line
MethodSpans == {<<1, 2>>, <<3, MaxLine>>}

JsonMethods ==
    {[source_path |-> f, start_line |-> sp[1], end_line |-> sp[2],
      region_tags |-> <<>>, test_methods |-> <<e>>] :
        f \in SourceFiles, sp \in MethodSpans, e \in TestEntries}

Artifacts == UNION {[1..n -> JsonMethods] : n \in 1..MaxMethods}

source_filepaths == {json_methods[i].source_path : i \in 1..Len(json_methods)}

\* analyze.py line 36
DedupeKey(m) == JoinStr(",", m.region_tags)

RECURSIVE DedupeLoop(_, _, _, _)
\* analyze.py lines 33-39
DedupeLoop(ms, i, keys, deduped) ==
    IF i > Len(ms) THEN deduped
    ELSE LET key == DedupeKey(ms[i])
         IN  IF key \notin keys
             THEN DedupeLoop(ms, i + 1, keys \cup {key}, Append(deduped, ms[i]))
             ELSE DedupeLoop(ms, i + 1, keys, deduped)

\* analyze.py line 30
WithRegionTags(ms) == SelectSeq(ms, LAMBDA m : m.region_tags # <<>>)

\* analyze.py lines 43-49: tuple conversion of test_methods, children drift
\* data and YAML metadata; none of them changes region_tags
add_yaml_data_to_source_methods(ms) == ms

AnInit ==
    /\ an_pc = "scan"
    /\ json_methods \in Artifacts
    /\ scanned = {}
    /\ grep_tags = {}
    /\ ignored_tags = {}
    /\ source_methods = <<>>
    /\ source_tags = {}
    /\ ret_ignored = {}
    /\ InjIdle
    /\ CorIdle
    /\ TfIdle
    /\ ExIdle
    /\ RsIdle

\* analyze.py lines 17-28, one iteration
ScanFile ==
    /\ an_pc = "scan"
    /\ \E f \in source_filepaths \ scanned :
       \E r \in ScanResults :
          /\ grep_tags' = grep_tags \cup {r.regions[i][1] : i \in 1..Len(r.regions)}
          /\ ignored_tags' = ignored_tags \cup r.ignored
          /\ json_methods' \in add_region_tags_to_methods(json_methods, f, r.regions)
          /\ scanned' = scanned \cup {f}
    /\ UNCHANGED <<an_pc, source_methods, source_tags, ret_ignored>>
    /\ UNCHANGED notAn

\* analyze.py lines 30-49
Dedupe ==
    /\ an_pc = "scan"
    /\ scanned = source_filepaths
    /\ source_methods' =
          add_yaml_data_to_source_methods(
              DedupeLoop(WithRegionTags(json_methods), 1, {}, <<>>))
    /\ an_pc' = "collect"
    /\ UNCHANGED <<json_methods, scanned, grep_tags, ignored_tags, source_tags, ret_ignored>>
    /\ UNCHANGED notAn

\* a variant of lines 51-57 that filters the detected tags only
RemoveIgnoredGrepOnly ==
    /\ an_pc = "collect"
    /\ source_tags' = UNION {SeqToSet(source_methods[i].region_tags) :
                                i \in 1..Len(source_methods)}
    /\ grep_tags' = {x \in grep_tags : x \notin ignored_tags}
    /\ an_pc' = "yaml"
    /\ UNCHANGED <<json_methods, scanned, ignored_tags, source_methods, ret_ignored>>
    /\ UNCHANGED notAn

\* analyze.py lines 51-57
RemoveIgnored ==
    /\ an_pc = "collect"
    /\ LET all == UNION {SeqToSet(source_methods[i].region_tags) :
                            i \in 1..Len(source_methods)}
       IN  source_tags' = {x \in all : x \notin ignored_tags}
    /\ grep_tags' = {x \in grep_tags : x \notin ignored_tags}
    /\ an_pc' = "yaml"
    /\ UNCHANGED <<json_methods, scanned, ignored_tags, source_methods, ret_ignored>>
    /\ UNCHANGED notAn

\* analyze.py lines 59-65; yaml_utils.get_untested_region_tags(root_dir) is
\* whatever the .drift-data.yml files of root_dir list
Return ==
    /\ an_pc = "yaml"
    /\ \E untested \in SUBSET Tags :
          ret_ignored' = ignored_tags \cup untested
    /\ an_pc' = "done"
    /\ UNCHANGED <<json_methods, scanned, grep_tags, ignored_tags, source_methods, source_tags>>
    /\ UNCHANGED notAn

AnNext == ScanFile \/ Dedupe \/ RemoveIgnored \/ Return

SpecAnalyze == AnInit /\ [][AnNext]_vars

(***************************************************************************)
(* C1 (as stated): no tag of the returned ignored list, whether ignored by *)
(* a marker or by the YAML configuration, is among the returned detected   *)
(* tags or source tags.                                                    *)
(***************************************************************************)
C1_NoIgnoredTagReported ==
    an_pc = "done" =>
        \A t \in ret_ignored : t \notin grep_tags /\ t \notin source_tags

(***************************************************************************)
(* C1 (amended): once lines 56-57 have run, no tag ignored by a marker in  *)
(* any scanned source file is among the detected tags or the source tags.  *)
(***************************************************************************)
C1_NoMarkerIgnoredTagReported ==
    an_pc \in {"yaml", "done"} =>
        \A t \in ignored_tags : t \notin grep_tags /\ t \notin source_tags

\* a marker-ignored tag that a returned method carries was dropped from the
\* source tags, while another tag was kept
C1_Witness ==
    /\ an_pc = "done"
    /\ source_tags # {}
    /\ \E t \in ignored_tags :
          /\ t \notin source_tags
          /\ \E i \in 1..Len(source_methods) : t \in SeqToSet(source_methods[i].region_tags)

(***************************************************************************)
(* C2 (as stated): after the deduplication step no two returned methods    *)
(* hold the same set of tag names, each tag set of an eligible input       *)
(* method is kept, and the entry kept for a tag set is the first input     *)
(* method with that set.                                                   *)
(***************************************************************************)
C2_DedupBySortedTagSet ==
    an_pc \in {"collect", "yaml", "done"} =>
        LET eligible == WithRegionTags(json_methods)
            TagSet(m) == SeqToSet(m.region_tags)
        IN  /\ \A i, j \in 1..Len(source_methods) :
                  i # j => TagSet(source_methods[i]) # TagSet(source_methods[j])
            /\ \A i \in 1..Len(eligible) :
                  \E j \in 1..Len(source_methods) :
                     /\ TagSet(source_methods[j]) = TagSet(eligible[i])
                     /\ source_methods[j] =
                           eligible[CHOOSE k \in 1..Len(eligible) :
                                       /\ TagSet(eligible[k]) = TagSet(eligible[i])
                                       /\ \A l \in 1..(k - 1) :
                                             TagSet(eligible[l]) # TagSet(eligible[i])]

(***************************************************************************)
(* cli.py: inject_snippet_mapping                                          *)
(***************************************************************************)
\* os.path.basename
Basename(path) == SubSeq(path, RFindChar(path, "/") + 1, Len(path))

\* os.path.splitext(..)[0] of a name without directory: cut at the last dot,
\* unless only dots precede it
SplitextRoot(name) ==
    LET d == RFindChar(name, ".")
    IN  IF d > 0 /\ \E k \in 1..(d - 1) : CharAt(name, k) # "."
        THEN SubSeq(name, 1, d - 1)
        ELSE name

\* cli.py lines 165-166
ClassParts(classname) ==
    SelectSeq(SplitStr(classname, "."), LAMBDA part : ~StartsWith(part, "Test"))

\* cli.py line 167 (defined when ClassParts is not empty)
TestcaseKey(elem) ==
    LET parts == ClassParts(elem.classname)
    IN  <<parts[Len(parts)], elem.name>>

\* cli.py lines 169-172
MethodTestKeys(method) ==
    {<<SplitextRoot(Basename(method.test_methods[i][1])), method.test_methods[i][2]>> :
        i \in 1..Len(method.test_methods)}

\* a variant that forgets the tags already on the element
ExistingTagListDropped(attr) == <<>>

\* cli.py lines 176-178; an attribute is <<>> when absent, <<value>> otherwise
ExistingTagList(attr) ==
    IF attr = <<>> \/ attr[1] = "" THEN <<>> ELSE SplitStr(attr[1], ",")

RECURSIVE InjectLoop(_, _, _, _)
\* cli.py lines 168-183: the attribute values the loop over the methods can
\* leave on an element (the order of ','.join over a set is not specified)
InjectLoop(methods, attr, key, mi) ==
    IF mi > Len(methods) THEN {attr}
    ELSE IF key \in MethodTestKeys(methods[mi])
         THEN LET deduped_tag_list ==
                      SeqToSet(ExistingTagList(attr) \o methods[mi].region_tags)
              IN  UNION {InjectLoop(methods, <<JoinStr(",", o)>>, key, mi + 1) :
                            o \in Orderings(deduped_tag_list)}
         ELSE InjectLoop(methods, attr, key, mi + 1)

InjTestEntries ==
    {<<"p/a/main_test.py", "test_x">>, <<"p/a/main_test.py", "test_y">>,
     <<"util_test.py", "test_x">>}

\* what analyze_json can return as source_methods: region tags present, no two
\* methods with the same deduplication key
AnalyzedMethods ==
    {[source_path |-> "p/a/main.py", start_line |-> 1, end_line |-> 2,
      region_tags |-> tg, test_methods |-> tm] :
        tg \in {<<"a">>, <<"b">>, <<"b", "c">>},
        tm \in {<<>>} \cup {<<e>> : e \in InjTestEntries}
                      \cup {<<"p/a/main_test.py", "test_x">>} \X {<<"util_test.py", "test_x">>}}

AnalyzedLists ==
    {ms \in UNION {[1..n -> AnalyzedMethods] : n \in 0..MaxMethods} :
        \A i, j \in 1..Len(ms) : i # j => DedupeKey(ms[i]) # DedupeKey(ms[j])}

Testcases ==
    [classname : {"a.main_test", "a.main_test.TestFoo", "util_test", "TestOnly"},
     name : {"test_x"},
     region_tags : {<<>>, <<"">>, <<"a">>, <<"c,a">>}]

XunitTrees == UNION {[1..n -> Testcases] : n \in 1..MaxTestcases}

InjInit ==
    /\ an_pc = "done"
    /\ json_methods = <<>>
    /\ scanned = {}
    /\ grep_tags = {}
    /\ ignored_tags = {}
    /\ source_methods \in AnalyzedLists
    /\ source_tags = {}
    /\ ret_ignored = {}
    /\ xunit_in \in XunitTrees
    /\ xunit_tree = xunit_in
    /\ elem_idx = 0
    /\ inj_err = FALSE
    /\ CorIdle
    /\ TfIdle
    /\ ExIdle
    /\ RsIdle

\* cli.py lines 164-183, one testcase element whose key can be formed
InjectElem ==
    /\ ~inj_err
    /\ elem_idx < Len(xunit_tree)
    /\ LET elem == xunit_tree[elem_idx + 1]
       IN  /\ ClassParts(elem.classname) # <<>>
           /\ \E attr \in InjectLoop(source_methods, elem.region_tags, TestcaseKey(elem), 1) :
                 xunit_tree' = [xunit_tree EXCEPT ![elem_idx + 1].region_tags = attr]
    /\ elem_idx' = elem_idx + 1
    /\ UNCHANGED <<anVars, xunit_in, inj_err, corVars, tfVars, exVars, rsVars>>

\* cli.py line 167 on a classname all of whose components start with 'Test':
\* class_parts[-1] raises IndexError
InjectElemFails ==
    /\ ~inj_err
    /\ elem_idx < Len(xunit_tree)
    /\ ClassParts(xunit_tree[elem_idx + 1].classname) = <<>>
    /\ inj_err' = TRUE
    /\ UNCHANGED <<anVars, xunit_in, xunit_tree, elem_idx, corVars, tfVars, exVars, rsVars>>

InjNext == InjectElem \/ InjectElemFails

SpecInject == InjInit /\ [][InjNext]_vars

(***************************************************************************)
(* C10: every testcase element the loop has processed carries, when at     *)
(* least one snippet's test_methods holds its key, a region_tags attribute *)
(* that is the comma-joined, duplicate-free union of the tags it had and   *)
(* the region_tags of every such snippet; an element matched by no snippet *)
(* (and every element not yet processed) has the attribute it came with,   *)
(* absent when it was absent.                                              *)
(***************************************************************************)
C10_Matching(elem) ==
    {i \in 1..Len(source_methods) : TestcaseKey(elem) \in MethodTestKeys(source_methods[i])}

C10_InjectedUnion ==
    \A i \in 1..Len(xunit_tree) :
        LET orig == xunit_in[i]
            now == xunit_tree[i]
            had == IF orig.region_tags = <<>> \/ orig.region_tags[1] = ""
                   THEN {} ELSE SeqToSet(SplitStr(orig.region_tags[1], ","))
        IN  /\ now.classname = orig.classname /\ now.name = orig.name
            /\ IF i <= elem_idx /\ C10_Matching(orig) # {}
               THEN /\ now.region_tags # <<>>
                    /\ LET listed == SplitStr(now.region_tags[1], ",")
                       IN  /\ \A k, l \in 1..Len(listed) : k # l => listed[k] # listed[l]
                           /\ SeqToSet(listed) =
                                 had \cup UNION {SeqToSet(source_methods[m].region_tags) :
                                                    m \in C10_Matching(orig)}
               ELSE now.region_tags = orig.region_tags

\* an element that came with tags was matched by two snippets and carries more
\* tags than either of them gave
C10_Witness ==
    \E i \in 1..elem_idx :
        /\ Cardinality(C10_Matching(xunit_in[i])) = 2
        /\ xunit_in[i].region_tags = <<"c,a">>
        /\ Len(SplitStr(xunit_tree[i].region_tags[1], ",")) = 3

(***************************************************************************)
(* test_parser.py: the syntax trees of test bodies.  A node is a record;   *)
(* its field t is the node's class and the other fields are the attributes *)
(* the code probes with hasattr.                                           *)
(***************************************************************************)
Name(id) == [t |-> "Name", id |-> id]
Str(s) == [t |-> "Str", s |-> s]
Num == [t |-> "Num", n |-> 1]
Attribute(value, attr) == [t |-> "Attribute", value |-> value, attr |-> attr]
Call(func, args) == [t |-> "Call", func |-> func, args |-> args]
Expr(value) == [t |-> "Expr", value |-> value]
Assign(value) == [t |-> "Assign", value |-> value]
Compare(left, comparators) == [t |-> "Compare", left |-> left, comparators |-> comparators]
AssertStmt(test) == [t |-> "Assert", test |-> test]
With(body) == [t |-> "With", body |-> body]
For(body) == [t |-> "For", body |-> body]
Pass == [t |-> "Pass"]

hasattr(node, field) == field \in DOMAIN node

\* ast_parser.core.constants (the names the resolver takes for HTTP test clients
\* and HTTP verbs)
HTTP_CLASS_NAMES == {"client", "app"}
HTTP_METHOD_NAMES == {"get", "post"}

\* drift_test.DriftTest, as the two ways test_parser.py constructs it
DirectTest(class_name, method_name) ==
    [kind |-> "direct", class_name |-> class_name, method_name |-> method_name]
HttpTest(url, http_method) ==
    [kind |-> "http", url |-> url, http_method |-> http_method]

\* drift_test.DriftTest.get_key_tuple: a TestKey is (class_name, method_name)
\* or (http_method, url)
get_key_tuple(d) ==
    IF d.kind = "direct" THEN <<d.class_name, d.method_name>>
    ELSE <<d.http_method, d.url>>

Found(keys) == [err |-> FALSE, keys |-> keys]
Raised == [err |-> TRUE, keys |-> <<>>]
Both(r1, r2) == IF r1.err \/ r2.err THEN Raised ELSE Found(r1.keys \o r2.keys)

\* a resolver without the HTTP-client pattern
NotHttpClientCall(expr) == FALSE

\* test_parser.py lines 132-135, up to the probe of expr.args[0]
IsHttpClientCall(expr) ==
    /\ hasattr(expr.func.value, "id")
    /\ expr.func.value.id \in HTTP_CLASS_NAMES
    /\ expr.func.attr \in HTTP_METHOD_NAMES

RECURSIVE __recursor__(_)
RECURSIVE RecursorBody(_, _)
\* test_parser.py lines 109-161: the keys found, or the exception raised
__recursor__(expr) ==
    LET is_func == hasattr(expr, "func")
    IN  IF expr.t = "Attribute" /\ hasattr(expr.value, "id")
        THEN Found(<<DirectTest(expr.value.id, expr.attr)>>)
        ELSE IF /\ is_func /\ hasattr(expr.func, "value")
                /\ IsHttpClientCall(expr) /\ expr.args = <<>>
        THEN Raised   \* expr.args[0]: IndexError
        ELSE IF /\ is_func /\ hasattr(expr.func, "value")
                /\ IsHttpClientCall(expr) /\ hasattr(expr.args[1], "s")
        THEN Found(<<HttpTest(expr.args[1].s, expr.func.attr)>>)
        ELSE IF hasattr(expr, "value") THEN __recursor__(expr.value)
        ELSE IF is_func THEN __recursor__(expr.func)
        ELSE IF hasattr(expr, "test") /\ hasattr(expr.test, "comparators")
        THEN Both(__recursor__(expr.test.comparators[1]), __recursor__(expr.test.left))
        ELSE IF expr.t \in {"With", "For"} THEN RecursorBody(expr.body, 1)
        ELSE Found(<<>>)

\* test_parser.py lines 154-157 (and 164-166): the statements of a body in order
RecursorBody(body, i) ==
    IF i > Len(body) THEN Found(<<>>)
    ELSE Both(__recursor__(body[i]), RecursorBody(body, i + 1))

RECURSIVE AddKeysOverwrite(_, _, _, _)
\* a map whose entry is replaced by the latest test
AddKeysOverwrite(map, found, i, entry) ==
    IF i > Len(found) THEN map
    ELSE LET child_key == get_key_tuple(found[i])
         IN  AddKeysOverwrite(IF child_key \in DOMAIN map
                              THEN [map EXCEPT ![child_key] = <<entry>>]
                              ELSE (child_key :> <<entry>>) @@ map,
                              found, i + 1, entry)

RECURSIVE AddKeys(_, _, _, _)
\* test_parser.py lines 167-173
AddKeys(map, found, i, entry) ==
    IF i > Len(found) THEN map
    ELSE LET child_key == get_key_tuple(found[i])
         IN  AddKeys(IF child_key \in DOMAIN map
                     THEN [map EXCEPT ![child_key] = Append(@, entry)]
                     ELSE (child_key :> <<entry>>) @@ map,
                     found, i + 1, entry)

(***************************************************************************)
(* test_parser.py: store_tests_on_methods                                  *)
(***************************************************************************)
Cwd == "/w"

\* os.path.abspath of a path without '.', '..' or doubled slashes
Abspath(path) == IF StartsWith(path, "/") THEN path ELSE Cwd \o "/" \o path

RECURSIVE RStripSlash(_)
RStripSlash(s) ==
    IF s # "" /\ CharAt(s, Len(s)) = "/" THEN RStripSlash(SubSeq(s, 1, Len(s) - 1)) ELSE s

\* os.path.dirname
Dirname(path) ==
    LET head == SubSeq(path, 1, RFindChar(path, "/"))
    IN  IF head # "" /\ RStripSlash(head) # "" THEN RStripSlash(head) ELSE head

\* a variant that builds HTTP keys as (url, method)
KeysOfSwapped(drift) ==
    IF drift.parser = "direct_invocation"
    THEN <<<<drift.class_name, drift.method_name>>>>
    ELSE IF drift.parser = "webapp2_router"
    THEN <<<<drift.url, drift.http_methods[1]>>>>
    ELSE IF drift.parser = "flask_router"
    THEN [i \in 1..Len(drift.http_methods) |-> <<drift.url, drift.http_methods[i]>>]
    ELSE <<>>

\* a variant that looks a flask route up by its first HTTP method only
KeysOfFirstMethod(drift) ==
    IF drift.parser = "direct_invocation"
    THEN <<<<drift.class_name, drift.method_name>>>>
    ELSE IF drift.parser \in {"webapp2_router", "flask_router"}
    THEN <<<<drift.http_methods[1], drift.url>>>>
    ELSE <<>>

\* test_parser.py lines 201-208
KeysOf(drift) ==
    IF drift.parser = "direct_invocation"
    THEN <<<<drift.class_name, drift.method_name>>>>
    ELSE IF drift.parser = "webapp2_router"
    THEN <<<<drift.http_methods[1], drift.url>>>>
    ELSE IF drift.parser = "flask_router"
    THEN [i \in 1..Len(drift.http_methods) |-> <<drift.http_methods[i], drift.url>>]
    ELSE <<>>

EntryPaths(entries) == {entries[j][1] : j \in 1..Len(entries)}

\* test_parser.py line 225
PathFilter(source_root, test_path) == StrContains(source_root, Abspath(test_path))

RECURSIVE StoreLoopFilterFirst(_, _, _, _, _)
\* a variant that applies the path filter before the consistency check
StoreLoopFilterFirst(map, source_root, keys, i, new_test_methods) ==
    IF i > Len(keys) THEN [err |-> FALSE, tests |-> new_test_methods]
    ELSE IF keys[i] \in DOMAIN map /\ map[keys[i]] # <<>>
    THEN LET source_paths == EntryPaths(map[keys[i]])
         IN  IF PathFilter(source_root, map[keys[i]][1][1])
             THEN IF Cardinality(source_paths) # 1
                  THEN [err |-> TRUE, tests |-> new_test_methods]
                  ELSE StoreLoopFilterFirst(map, source_root, keys, i + 1,
                                            new_test_methods \o map[keys[i]])
             ELSE StoreLoopFilterFirst(map, source_root, keys, i + 1, new_test_methods)
    ELSE StoreLoopFilterFirst(map, source_root, keys, i + 1, new_test_methods)

RECURSIVE StoreLoop(_, _, _, _, _)
\* test_parser.py lines 211-226: the ValueError raised, or new_test_methods
StoreLoop(map, source_root, keys, i, new_test_methods) ==
    IF i > Len(keys) THEN [err |-> FALSE, tests |-> new_test_methods]
    ELSE IF keys[i] \in DOMAIN map /\ map[keys[i]] # <<>>
    THEN LET source_paths == EntryPaths(map[keys[i]])
         IN  IF Cardinality(source_paths) # 1
             THEN [err |-> TRUE, tests |-> new_test_methods]
             ELSE IF PathFilter(source_root, CHOOSE sp \in source_paths : TRUE)
             THEN StoreLoop(map, source_root, keys, i + 1,
                            new_test_methods \o map[keys[i]])
             ELSE StoreLoop(map, source_root, keys, i + 1, new_test_methods)
    ELSE StoreLoop(map, source_root, keys, i + 1, new_test_methods)

(***************************************************************************)
(* The test methods and source methods a run is given.                     *)
(***************************************************************************)
CM == Attribute(Name("C"), "m")
PostSign == Call(Attribute(Name("client"), "post"), <<Str("/sign")>>)
GetSign == Call(Attribute(Name("client"), "get"), <<Str("/sign")>>)

Bodies ==
    {<<Expr(Call(CM, <<>>))>>,                                \* C.m()
     <<Assign(CM)>>,                                          \* f = C.m
     <<Expr(PostSign)>>,                                      \* client.post("/sign")
     <<Assign(GetSign)>>,                                     \* r = client.get("/sign")
     \* assert client.post("/sign").status == C.m()
     <<AssertStmt(Compare(Attribute(PostSign, "status"), <<Call(CM, <<>>)>>))>>,
     <<Expr(Call(Name("print"), <<PostSign>>))>>,             \* print(client.post("/sign"))
     <<Expr(Call(Attribute(Name("client"), "post"), <<>>))>>, \* client.post()
     \* with ...: client.post("/sign"); client.post("/sign")
     <<With(<<Expr(PostSign), Expr(PostSign)>>)>>}

TestPaths == {"p/a/main_test.py", "p/ab/main_test.py", "q/main_test.py"}

\* the test methods of one file have distinct names (get_test_methods, line 72)
TestName(i) == "test_" \o SubSeq("123456789", i, i)

TestLists ==
    UNION {{[i \in 1..n |-> [name |-> TestName(i), test_path |-> tp[i], body |-> bd[i]]] :
                tp \in [1..n -> TestPaths], bd \in [1..n -> Bodies]} : n \in 0..MaxTests}

PriorTests == {<<>>, <<<<"p/a/old_test.py", "test_old">>>>}

Snippets ==
    {[parser |-> "direct_invocation", class_name |-> "C", method_name |-> "m",
      url |-> "", http_methods |-> <<>>, source_path |-> sp, test_methods |-> pt] :
        sp \in {"p/a/main.py", "main.py"}, pt \in PriorTests}
    \cup
    {[parser |-> "webapp2_router", class_name |-> "", method_name |-> "",
      url |-> "/sign", http_methods |-> <<"post">>, source_path |-> sp, test_methods |-> pt] :
        sp \in {"p/a/main.py", "main.py"}, pt \in PriorTests}
    \cup
    {[parser |-> "flask_router", class_name |-> "", method_name |-> "",
      url |-> "/sign", http_methods |-> <<"get", "post">>, source_path |-> sp,
      test_methods |-> pt] :
        sp \in {"p/a/main.py", "main.py"}, pt \in PriorTests}

CorInit ==
    /\ AnIdle
    /\ InjIdle
    /\ TfIdle
    /\ ExIdle
    /\ cor_pc = "map"
    /\ test_methods \in TestLists
    /\ tm_idx = 0
    /\ test_to_method_key_map = <<>>
    /\ sm_count = 0
    /\ method_in = <<>>
    /\ method_out = <<>>
    /\ RsIdle

\* test_parser.py lines 163-173, one test method whose body raises nothing
MapTestMethod ==
    /\ cor_pc = "map"
    /\ tm_idx < Len(test_methods)
    /\ LET m == test_methods[tm_idx + 1]
           r == RecursorBody(m.body, 1)
       IN  /\ ~r.err
           /\ test_to_method_key_map' =
                 AddKeys(test_to_method_key_map, r.keys, 1, <<m.test_path, m.name>>)
    /\ tm_idx' = tm_idx + 1
    /\ UNCHANGED <<cor_pc, test_methods, sm_count, method_in, method_out, anVars, injVars, tfVars, exVars, rsVars>>

\* test_parser.py lines 163-166, a test method whose body makes __recursor__ raise
MapTestMethodRaises ==
    /\ cor_pc = "map"
    /\ tm_idx < Len(test_methods)
    /\ RecursorBody(test_methods[tm_idx + 1].body, 1).err
    /\ cor_pc' = "raised_map"
    /\ UNCHANGED <<test_methods, tm_idx, test_to_method_key_map, sm_count, method_in,
                   method_out, anVars, injVars, tfVars, exVars, rsVars>>

\* test_parser.py line 175
MapReturn ==
    /\ cor_pc = "map"
    /\ tm_idx = Len(test_methods)
    /\ cor_pc' = "store"
    /\ UNCHANGED <<test_methods, tm_idx, test_to_method_key_map, sm_count, method_in,
                   method_out, anVars, injVars, tfVars, exVars, rsVars>>

\* test_parser.py lines 197-228, the next source method of the list
StoreOnMethod ==
    /\ cor_pc = "store"
    /\ sm_count < MaxSnippets
    /\ \E drift \in Snippets :
          LET source_root == Dirname(drift.source_path)
              r == StoreLoop(test_to_method_key_map, source_root, KeysOf(drift), 1,
                             drift.test_methods)
          IN  /\ ~r.err
              /\ method_in' = <<drift>>
              /\ method_out' = <<[drift EXCEPT !.test_methods = r.tests]>>
    /\ sm_count' = sm_count + 1
    /\ UNCHANGED <<cor_pc, test_methods, tm_idx, test_to_method_key_map, anVars, injVars, tfVars, exVars, rsVars>>

\* test_parser.py lines 219-223: the ValueError leaves the method as it was
StoreRaises ==
    /\ cor_pc = "store"
    /\ sm_count < MaxSnippets
    /\ \E drift \in Snippets :
          /\ StoreLoop(test_to_method_key_map, Dirname(drift.source_path), KeysOf(drift), 1,
                       drift.test_methods).err
          /\ method_in' = <<drift>>
          /\ method_out' = <<drift>>
    /\ sm_count' = sm_count + 1
    /\ cor_pc' = "raised_store"
    /\ UNCHANGED <<test_methods, tm_idx, test_to_method_key_map, anVars, injVars, tfVars, exVars, rsVars>>

\* the list of source methods is exhausted
StoreReturn ==
    /\ cor_pc = "store"
    /\ cor_pc' = "done"
    /\ UNCHANGED <<test_methods, tm_idx, test_to_method_key_map, sm_count, method_in,
                   method_out, anVars, injVars, tfVars, exVars, rsVars>>

CorNext ==
    \/ MapTestMethod \/ MapTestMethodRaises \/ MapReturn
    \/ StoreOnMethod \/ StoreRaises \/ StoreReturn

SpecCorrelate == CorInit /\ [][CorNext]_vars

(***************************************************************************)
(* Vocabulary of the correlation claims.                                   *)
(***************************************************************************)
RECURSIVE SubNodes(_)
\* every node of a syntax tree
SubNodes(n) ==
    {n}
    \cup (IF hasattr(n, "value") THEN SubNodes(n.value) ELSE {})
    \cup (IF hasattr(n, "func") THEN SubNodes(n.func) ELSE {})
    \cup (IF hasattr(n, "args") THEN UNION {SubNodes(n.args[i]) : i \in 1..Len(n.args)} ELSE {})
    \cup (IF hasattr(n, "test") THEN SubNodes(n.test) ELSE {})
    \cup (IF hasattr(n, "left") THEN SubNodes(n.left) ELSE {})
    \cup (IF hasattr(n, "comparators")
          THEN UNION {SubNodes(n.comparators[i]) : i \in 1..Len(n.comparators)} ELSE {})
    \cup (IF hasattr(n, "body") THEN UNION {SubNodes(n.body[i]) : i \in 1..Len(n.body)} ELSE {})

BodyNodes(test) == UNION {SubNodes(test.body[i]) : i \in 1..Len(test.body)}

\* client.verb(url, ...) on a known HTTP client, the first argument a string
IsHttpCallOf(n, verb, url) ==
    /\ n.t = "Call"
    /\ n.func.t = "Attribute"
    /\ n.func.value.t = "Name"
    /\ n.func.value.id \in HTTP_CLASS_NAMES
    /\ n.func.attr = verb
    /\ n.args # <<>>
    /\ n.args[1] = Str(url)

\* a source method has been given its tests and nothing was raised
Stored == cor_pc \in {"store", "done"} /\ method_out # <<>>

\* the entries store_tests_on_methods appended to the method taken last
NewEntries ==
    SubSeq(method_out[1].test_methods, Len(method_in[1].test_methods) + 1,
           Len(method_out[1].test_methods))

TestsOfEntry(e) ==
    {test_methods[i] : i \in {j \in 1..Len(test_methods) :
                                 <<test_methods[j].test_path, test_methods[j].name>> = e}}

\* the (verb, url) pairs of a routed snippet
RouteKeys(d) ==
    IF d.parser = "webapp2_router" THEN {<<d.http_methods[1], d.url>>}
    ELSE IF d.parser = "flask_router" THEN {<<d.http_methods[i], d.url>> : i \in 1..Len(d.http_methods)}
    ELSE {}

C3_HttpOnlyIf ==
    Stored /\ method_out[1].parser # "direct_invocation" =>
        \A k \in 1..Len(NewEntries) :
            \E t \in TestsOfEntry(NewEntries[k]) : \E n \in BodyNodes(t) :
                \E key \in RouteKeys(method_out[1]) : IsHttpCallOf(n, key[1], key[2])

C3_HttpWhenever ==
    Stored /\ method_out[1].parser # "direct_invocation" =>
        \A i \in 1..Len(test_methods) : \A j \in 1..Len(test_methods[i].body) :
            LET stmt == test_methods[i].body[j]
            IN  (/\ stmt.t \in {"Expr", "Assign"}
                 /\ \E key \in RouteKeys(method_out[1]) : IsHttpCallOf(stmt.value, key[1], key[2])
                 /\ PathFilter(Dirname(method_out[1].source_path), test_methods[i].test_path))
                => <<test_methods[i].test_path, test_methods[i].name>> \in SeqToSet(NewEntries)

C4_MultiPath(drift) ==
    \E i \in 1..Len(KeysOf(drift)) :
        /\ KeysOf(drift)[i] \in DOMAIN test_to_method_key_map
        /\ Cardinality(EntryPaths(test_to_method_key_map[KeysOf(drift)[i]])) > 1

C4_ConsistencyError ==
    /\ Stored => ~C4_MultiPath(method_in[1])
    /\ cor_pc = "raised_store" =>
          /\ C4_MultiPath(method_in[1])
          /\ method_out = method_in

\* the error is raised for a key whose first entry does not pass the path filter
C4_Witness ==
    /\ cor_pc = "raised_store"
    /\ \A i \in 1..Len(KeysOf(method_in[1])) :
          KeysOf(method_in[1])[i] \in DOMAIN test_to_method_key_map =>
             ~PathFilter(Dirname(method_in[1].source_path),
                         test_to_method_key_map[KeysOf(method_in[1])[i]][1][1])

(***************************************************************************)
(* C5 (as stated): every entry store_tests_on_methods appends to a method  *)
(* has a test path that lies under the directory holding the method's      *)
(* source file.                                                            *)
(***************************************************************************)
C5_UnderDir(dir, path) ==
    StartsWith(Abspath(path), (IF dir = "" THEN Cwd ELSE Abspath(dir)) \o "/")

C5_AcceptedUnderSourceDir ==
    Stored =>
        \A k \in 1..Len(NewEntries) :
            C5_UnderDir(Dirname(method_out[1].source_path), NewEntries[k][1])

(***************************************************************************)
(* C7: the lookup keys are (class_name, method_name) for direct_invocation,*)
(* (first http method, url) for webapp2_router and one (method, url) per   *)
(* declared method, in order, for flask_router; the method's test_methods  *)
(* becomes its previous list followed by the accepted entries of each key  *)
(* present in the map, in key order; a method none of whose keys is in the *)
(* map keeps its list and raises nothing.                                  *)
(***************************************************************************)
C7_Keys(d) ==
    CASE d.parser = "direct_invocation" -> <<<<d.class_name, d.method_name>>>>
      [] d.parser = "webapp2_router" -> <<<<d.http_methods[1], d.url>>>>
      [] d.parser = "flask_router" ->
            [i \in 1..Len(d.http_methods) |-> <<d.http_methods[i], d.url>>]

RECURSIVE C7_Accepted(_, _, _)
C7_Accepted(d, keys, i) ==
    IF i > Len(keys) THEN <<>>
    ELSE (IF /\ keys[i] \in DOMAIN test_to_method_key_map
             /\ PathFilter(Dirname(d.source_path), test_to_method_key_map[keys[i]][1][1])
          THEN test_to_method_key_map[keys[i]]
          ELSE <<>>) \o C7_Accepted(d, keys, i + 1)

C7_StoredTests ==
    /\ Stored =>
          /\ method_out[1].test_methods =
                method_in[1].test_methods \o C7_Accepted(method_in[1], C7_Keys(method_in[1]), 1)
          /\ [method_out[1] EXCEPT !.test_methods = <<>>] =
                [method_in[1] EXCEPT !.test_methods = <<>>]
          /\ (\A i \in 1..Len(C7_Keys(method_in[1])) :
                 C7_Keys(method_in[1])[i] \notin DOMAIN test_to_method_key_map)
             => method_out = method_in
    /\ cor_pc = "raised_store" =>
          \E i \in 1..Len(C7_Keys(method_in[1])) :
              C7_Keys(method_in[1])[i] \in DOMAIN test_to_method_key_map

\* a flask route with earlier tests received the entries of both of its keys
C7_Witness ==
    /\ Stored
    /\ method_in[1].parser = "flask_router"
    /\ method_in[1].test_methods # <<>>
    /\ Len(NewEntries) = 2
    /\ NewEntries[1][2] # NewEntries[2][2]
    /\ <<"get", "/sign">> \in DOMAIN test_to_method_key_map
    /\ <<"post", "/sign">> \in DOMAIN test_to_method_key_map


(***************************************************************************)
(* test_parser.py: _get_test_nodes and get_test_methods                    *)
(***************************************************************************)
MaxNodes == 2

FunctionDef(name) == [t |-> "FunctionDef", name |-> name]
ClassDef(name, body) == [t |-> "ClassDef", name |-> name, body |-> body]

\* the members of a class: test methods and helpers
MemberNodes == {FunctionDef(n) : n \in {"test_a", "helper"}}
ClassBodies == UNION {[1..n -> MemberNodes] : n \in 0..MaxNodes}

\* the child nodes of a module: functions, classes and statements without a name
TopLevelNodes ==
    {FunctionDef(n) : n \in {"test_a", "test_b", "helper"}}
    \cup {ClassDef(n, b) : n \in {"TestFoo", "test_b"}, b \in ClassBodies}
    \cup {Assign(Num)}

ParsedFiles == UNION {[1..n -> TopLevelNodes] : n \in 0..MaxNodes}

RECURSIVE PossibleTestNodes(_, _, _)
\* test_parser.py lines 37-42
PossibleTestNodes(nodes, i, possible_test_nodes) ==
    IF i > Len(nodes) THEN possible_test_nodes
    ELSE LET node == nodes[i]
             appended == Append(possible_test_nodes, node)
         IN  PossibleTestNodes(nodes, i + 1,
                IF StrContains("ClassDef", node.t)
                THEN appended \o node.body
                ELSE appended)

\* test_parser.py lines 26-45
_get_test_nodes(nodes) ==
    SelectSeq(PossibleTestNodes(nodes, 1, <<>>),
              LAMBDA node : hasattr(node, "name") /\ StartsWith(node.name, "test_"))

\* test_parser.py lines 65-66
SetTestPath(nodes, path) ==
    [i \in 1..Len(nodes) |->
        IF hasattr(nodes[i], "body")
        THEN [t |-> nodes[i].t, name |-> nodes[i].name, body |-> nodes[i].body,
              test_path |-> path]
        ELSE [t |-> nodes[i].t, name |-> nodes[i].name, test_path |-> path]]

RECURSIVE UniqueNamesLoop(_, _, _)
\* test_parser.py lines 70-76: TRUE iff the loop raises the ValueError
UniqueNamesLoop(nodes, i, used_test_names) ==
    IF i > Len(nodes) THEN FALSE
    ELSE IF nodes[i].name \in used_test_names THEN TRUE
    ELSE UniqueNamesLoop(nodes, i + 1, used_test_names \cup {nodes[i].name})

\* an except clause that catches every exception
CaughtAlways(exc) == TRUE

\* test_parser.py line 79: except IOError
Caught(exc) == exc = "IOError"

TfInit ==
    /\ tf_pc = "open"
    /\ tf_path \in TestPaths
    /\ tf_readable \in BOOLEAN
    /\ parsed_nodes = <<>>
    /\ test_nodes = <<>>
    /\ tf_result = <<>>
    /\ AnIdle
    /\ InjIdle
    /\ CorIdle
    /\ ExIdle
    /\ RsIdle

\* test_parser.py line 59 raises IOError; lines 79-88
OpenFails ==
    /\ tf_pc = "open"
    /\ ~tf_readable
    /\ tf_pc' = IF Caught("IOError") THEN "warned" ELSE "raised"
    /\ UNCHANGED <<tf_path, tf_readable, parsed_nodes, test_nodes, tf_result>>
    /\ UNCHANGED <<anVars, injVars, corVars, exVars, rsVars>>

\* test_parser.py lines 59-66
ParseFile ==
    /\ tf_pc = "open"
    /\ tf_readable
    /\ \E nodes \in ParsedFiles :
          /\ parsed_nodes' = nodes
          /\ test_nodes' = SetTestPath(_get_test_nodes(nodes), tf_path)
    /\ tf_pc' = "check"
    /\ UNCHANGED <<tf_path, tf_readable, tf_result>>
    /\ UNCHANGED <<anVars, injVars, corVars, exVars, rsVars>>

\* test_parser.py lines 70-76 raise the ValueError; line 79 decides who sees it
DuplicateNameRaises ==
    /\ tf_pc = "check"
    /\ UniqueNamesLoop(test_nodes, 1, {})
    /\ tf_pc' = IF Caught("ValueError") THEN "warned" ELSE "raised"
    /\ UNCHANGED <<tf_path, tf_readable, parsed_nodes, test_nodes, tf_result>>
    /\ UNCHANGED <<anVars, injVars, corVars, exVars, rsVars>>

\* test_parser.py lines 70-78
ReturnTestNodes ==
    /\ tf_pc = "check"
    /\ ~UniqueNamesLoop(test_nodes, 1, {})
    /\ tf_result' = test_nodes
    /\ tf_pc' = "returned"
    /\ UNCHANGED <<tf_path, tf_readable, parsed_nodes, test_nodes>>
    /\ UNCHANGED <<anVars, injVars, corVars, exVars, rsVars>>

TfNext == OpenFails \/ ParseFile \/ DuplicateNameRaises \/ ReturnTestNodes

SpecTestFile == TfInit /\ [][TfNext]_vars


(***************************************************************************)
(* C6                                                                      *)
(***************************************************************************)
\* what one child node of the module contributes: itself if it is named
\* test_..., then, for a class, its direct members named test_...
C6_OfNode(node, path) ==
    LET IsTest(n) == "name" \in DOMAIN n /\ Len(n.name) >= 5
                        /\ SubSeq(n.name, 1, 5) = "test_"
        members == IF node.t = "ClassDef" THEN node.body ELSE <<>>
        kept == (IF IsTest(node) THEN <<node>> ELSE <<>>)
                \o SelectSeq(members, IsTest)
    IN  SetTestPath(kept, path)

RECURSIVE C6_Flattened(_, _)
C6_Flattened(nodes, path) ==
    IF nodes = <<>> THEN <<>>
    ELSE C6_OfNode(Head(nodes), path) \o C6_Flattened(Tail(nodes), path)

C6_SharedName ==
    LET all == C6_Flattened(parsed_nodes, tf_path)
    IN  \E i, j \in 1..Len(all) : i < j /\ all[i].name = all[j].name

\* C6: get_test_methods returns, in source order and flattened to one list,
\* every child node of the module and every direct member of a top-level class
\* whose name begins with test_; if two of the collected nodes share a name it
\* raises the ValueError instead of returning, and that error is not turned
\* into the warning and empty result of the IOError handler, which only an
\* unreadable file gets.
C6_TestMethods ==
    /\ tf_pc = "returned" =>
          /\ tf_readable
          /\ ~C6_SharedName
          /\ tf_result = C6_Flattened(parsed_nodes, tf_path)
    /\ tf_pc = "raised" => tf_readable /\ C6_SharedName
    /\ tf_pc = "warned" => ~tf_readable /\ tf_result = <<>>
    /\ tf_pc = "check" =>
          test_nodes = C6_Flattened(parsed_nodes, tf_path)

\* a top-level test function and a method of a class share a name: raised
C6_Witness ==
    /\ tf_pc = "raised"
    /\ parsed_nodes = <<FunctionDef("test_a"),
                        ClassDef("TestFoo", <<FunctionDef("helper"), FunctionDef("test_a")>>)>>

\* two methods of one class share a name: raised
C6_WitnessWithinClass ==
    /\ tf_pc = "raised"
    /\ parsed_nodes = <<ClassDef("TestFoo", <<FunctionDef("test_a"), FunctionDef("test_a")>>)>>

\* methods of two classes share a name: raised
C6_WitnessAcrossClasses ==
    /\ tf_pc = "raised"
    /\ parsed_nodes = <<ClassDef("TestFoo", <<FunctionDef("test_a")>>),
                        ClassDef("test_b", <<FunctionDef("test_a")>>)>>

\* a class method and a function contribute, in source order, to one flat list
C6_WitnessReturned ==
    /\ tf_pc = "returned"
    /\ parsed_nodes = <<ClassDef("TestFoo", <<FunctionDef("helper"), FunctionDef("test_a")>>),
                        FunctionDef("test_b")>>
    /\ Len(tf_result) = 2
    /\ tf_result[1].name = "test_a"
    /\ tf_result[2].name = "test_b"

\* an unreadable file: warning and empty result
C6_WitnessWarned == tf_pc = "warned" /\ ~tf_readable /\ tf_result = <<>>


(***************************************************************************)
(* The source parser exercised by wizard-py/parser_test.py:                *)
(* get_top_level_methods, get_region_tag_regions and                       *)
(* add_region_tags_to_methods on one source file.                          *)
(***************************************************************************)
\* a tuple that lacks main
IgnoredNamesWithoutMain == {"run_command", "parse_command_line_args"}

\* lib/constants.py lines 16-20
IGNORED_METHOD_NAMES == {"run_command", "parse_command_line_args", "main"}

ExSourcePath == "p/a/main.py"

FunctionNames == {"main", "run_command", "parse_command_line_args", "not_main"}

\* the top-level function definitions of a file, in source order
FunctionLayouts ==
    {<<>>}
    \cup {<<[name |-> n, start_line |-> sp[1], end_line |-> sp[2]]>> :
            n \in FunctionNames, sp \in MethodSpans}
    \cup {<<[name |-> n1, start_line |-> 1, end_line |-> 2],
            [name |-> n2, start_line |-> 3, end_line |-> MaxLine]>> :
            n1 \in FunctionNames, n2 \in FunctionNames}

\* the drift data of a freshly parsed function
NewMethod(f) ==
    [name |-> f.name, source_path |-> ExSourcePath,
     start_line |-> f.start_line, end_line |-> f.end_line, region_tags |-> <<>>]

\* the top-level functions in source order, without the ignored names
get_top_level_methods(functions) ==
    LET kept == SelectSeq(functions, LAMBDA f : f.name \notin IGNORED_METHOD_NAMES)
    IN  [i \in 1..Len(kept) |-> NewMethod(kept[i])]

ExInit ==
    /\ ex_pc = "parse"
    /\ ex_functions \in FunctionLayouts
    /\ ex_methods = <<>>
    /\ ex_regions = <<>>
    /\ AnIdle
    /\ InjIdle
    /\ CorIdle
    /\ TfIdle
    /\ RsIdle

\* parser_test.py line 72
GetTopLevelMethods ==
    /\ ex_pc = "parse"
    /\ ex_methods' = get_top_level_methods(ex_functions)
    /\ ex_pc' = "scan"
    /\ UNCHANGED <<ex_functions, ex_regions>>
    /\ UNCHANGED <<anVars, injVars, corVars, tfVars, rsVars>>

\* parser_test.py line 74
GetRegionTagRegions ==
    /\ ex_pc = "scan"
    /\ \E r \in ScanResults : ex_regions' = r.regions
    /\ ex_pc' = "tag"
    /\ UNCHANGED <<ex_functions, ex_methods>>
    /\ UNCHANGED <<anVars, injVars, corVars, tfVars, rsVars>>

\* parser_test.py lines 75-76
AddRegionTagsToMethods ==
    /\ ex_pc = "tag"
    /\ ex_methods' \in add_region_tags_to_methods(ex_methods, ExSourcePath, ex_regions)
    /\ ex_pc' = "done"
    /\ UNCHANGED <<ex_functions, ex_regions>>
    /\ UNCHANGED <<anVars, injVars, corVars, tfVars, rsVars>>

ExNext == GetTopLevelMethods \/ GetRegionTagRegions \/ AddRegionTagsToMethods

SpecExtract == ExInit /\ [][ExNext]_vars


(***************************************************************************)
(* C8, C9                                                                  *)
(***************************************************************************)
\* some line belongs both to the function and to the region
C8_Intersects(m, region) ==
    \E l \in 1..MaxLine :
        /\ m.start_line <= l /\ l <= m.end_line
        /\ region[2] <= l /\ l <= region[3]

C8_TagsOf(m) ==
    {t \in Tags : \E k \in 1..Len(ex_regions) :
                     ex_regions[k][1] = t /\ C8_Intersects(m, ex_regions[k])}

\* C8: after get_region_tag_regions and add_region_tags_to_methods the
\* region_tags of each function are exactly the names of the tags with a region
\* that intersects the function's lines, each name once, and every function
\* the extractor returned is still its own entry.
C8_RegionTags ==
    ex_pc = "done" =>
        /\ Len(ex_methods) =
              Cardinality({i \in 1..Len(ex_functions) :
                              ex_functions[i].name \notin IGNORED_METHOD_NAMES})
        /\ \A i \in 1..Len(ex_methods) :
              LET tags == ex_methods[i].region_tags
              IN  /\ {tags[k] : k \in 1..Len(tags)} = C8_TagsOf(ex_methods[i])
                  /\ \A k, l \in 1..Len(tags) : k # l => tags[k] # tags[l]
        /\ \A i, j \in 1..Len(ex_methods) :
              i < j => ex_methods[i].end_line < ex_methods[j].start_line

\* one tag name around two disjoint blocks, each covering one function: both
\* functions report the tag once and are two entries
C8_Witness ==
    /\ ex_pc = "done"
    /\ ex_regions = <<<<"a", 1, 2>>, <<"a", 3, 4>>>>
    /\ Len(ex_methods) = 2
    /\ ex_methods[1].region_tags = <<"a">>
    /\ ex_methods[2].region_tags = <<"a">>
    /\ ex_methods[1].name = "not_main"

\* a function inside two nested regions reports both names
C8_WitnessNested ==
    /\ ex_pc = "done"
    /\ ex_regions = <<<<"b", 2, 3>>, <<"a", 1, 4>>>>
    /\ Len(ex_methods) = 2
    /\ \A i \in 1..2 : SeqToSet(ex_methods[i].region_tags) = {"a", "b"}

\* the tags of which every region misses every returned function
C9_TagsOfIgnoredOnly ==
    {t \in Tags :
        \A k \in 1..Len(ex_regions) :
            ex_regions[k][1] = t =>
                \A i \in 1..Len(ex_methods) : ~C8_Intersects(ex_methods[i], ex_regions[k])}

\* C9: a function named run_command, parse_command_line_args or main is never
\* in the list get_top_level_methods returned, whatever regions overlap it, and
\* a tag whose regions cover only such functions is on no returned function.
C9_IgnoredNames ==
    /\ ex_pc \in {"scan", "tag", "done"} =>
          /\ \A i \in 1..Len(ex_methods) :
                ex_methods[i].name \notin {"run_command", "parse_command_line_args", "main"}
          /\ \A i \in 1..Len(ex_functions) :
                ex_functions[i].name = "not_main" =>
                    \E j \in 1..Len(ex_methods) :
                        /\ ex_methods[j].name = "not_main"
                        /\ ex_methods[j].start_line = ex_functions[i].start_line
    /\ ex_pc = "done" =>
          \A i \in 1..Len(ex_methods) :
              SeqToSet(ex_methods[i].region_tags) \cap C9_TagsOfIgnoredOnly = {}

\* main under tag a, not_main under tag b: only not_main is returned, with b
C9_Witness ==
    /\ ex_pc = "done"
    /\ Len(ex_functions) = 2
    /\ ex_functions[1].name = "main"
    /\ ex_regions = <<<<"a", 1, 2>>, <<"b", 3, 4>>>>
    /\ Len(ex_methods) = 1
    /\ ex_methods[1].name = "not_main"
    /\ ex_methods[1].region_tags = <<"b">>


(***************************************************************************)
(* test_parser.py: __recursor__ on one statement of a test body            *)
(***************************************************************************)
MaxBlock == 2

RsNames == {Name("C"), Name("client")}

\* C.m, C.post, client.m, client.post, and C.m.n (receiver not an identifier)
RsAttributes ==
    {Attribute(n, a) : n \in RsNames, a \in {"m", "post"}}
    \cup {Attribute(Attribute(Name("C"), "m"), "n")}

RsArgs == {<<>>, <<Str("/sign")>>, <<Num>>, <<Attribute(Name("C"), "m")>>}

RsCalls == {Call(f, a) : f \in RsAttributes \cup {Name("f")}, a \in RsArgs}

\* c.status for a call c
RsResponses ==
    {Attribute(Call(Attribute(Name("client"), "post"), a), "status") :
        a \in {<<>>, <<Str("/sign")>>}}

RsValues == RsNames \cup {Str("/sign"), Num} \cup RsAttributes \cup RsCalls \cup RsResponses

RsOperands ==
    {Num, Call(Attribute(Name("C"), "m"), <<>>),
     Call(Attribute(Name("client"), "post"), <<Str("/sign")>>),
     Call(Attribute(Name("client"), "get"), <<>>)}

RsSimple ==
    {Expr(v) : v \in RsValues} \cup {Assign(v) : v \in RsValues}
    \cup {AssertStmt(Compare(l, <<r>>)) : l \in RsOperands, r \in RsOperands}
    \cup {AssertStmt(v) : v \in RsOperands}
    \cup {Pass}

RsBlockStmts ==
    {Pass, Expr(Call(Attribute(Name("C"), "m"), <<>>)),
     Expr(Call(Attribute(Name("client"), "post"), <<Str("/sign")>>)),
     Expr(Call(Attribute(Name("client"), "get"), <<>>))}

RsBodies == UNION {[1..n -> RsBlockStmts] : n \in 1..MaxBlock}

RsBlocks ==
    {With(b) : b \in RsBodies} \cup {For(b) : b \in RsBodies}
    \cup {With(<<For(<<s>>), s>>) : s \in RsBlockStmts}

RsStatements == RsSimple \cup RsBlocks

RsInit ==
    /\ rs_pc = "walk"
    /\ rs_expr \in RsStatements
    /\ rs_result = <<>>
    /\ AnIdle
    /\ InjIdle
    /\ CorIdle
    /\ TfIdle
    /\ ExIdle

\* test_parser.py lines 109-161, a call that returns
Walk ==
    /\ rs_pc = "walk"
    /\ ~__recursor__(rs_expr).err
    /\ rs_result' = __recursor__(rs_expr).keys
    /\ rs_pc' = "returned"
    /\ UNCHANGED rs_expr
    /\ UNCHANGED <<anVars, injVars, corVars, tfVars, exVars>>

\* test_parser.py line 135, expr.args[0] of an empty argument list
WalkRaises ==
    /\ rs_pc = "walk"
    /\ __recursor__(rs_expr).err
    /\ rs_pc' = "raised"
    /\ UNCHANGED <<rs_expr, rs_result>>
    /\ UNCHANGED <<anVars, injVars, corVars, tfVars, exVars>>

RsNext == Walk \/ WalkRaises

SpecResolve == RsInit /\ [][RsNext]_vars


(***************************************************************************)
(* C11                                                                     *)
(***************************************************************************)
\* a call client.verb("...") on a known HTTP client with a string first argument
C11_IsHttpCall(e) ==
    /\ e.t = "Call" /\ e.func.t = "Attribute" /\ e.func.value.t = "Name"
    /\ e.func.value.id \in {"client", "app"}
    /\ e.func.attr \in {"get", "post"}
    /\ Len(e.args) >= 1 /\ e.args[1].t = "Str"

\* a call client.verb() on a known HTTP client without any argument
C11_IsArglessHttpCall(e) ==
    /\ e.t = "Call" /\ e.func.t = "Attribute" /\ e.func.value.t = "Name"
    /\ e.func.value.id \in {"client", "app"}
    /\ e.func.attr \in {"get", "post"}
    /\ e.args = <<>>

RECURSIVE C11_Keys(_)
RECURSIVE C11_KeysOfBody(_)
\* the keys of a node, pattern by pattern in the stated order, by node class
C11_Keys(e) ==
    CASE e.t = "Attribute" /\ e.value.t = "Name" ->
            <<[kind |-> "direct", class_name |-> e.value.id, method_name |-> e.attr]>>
      [] e.t = "Call" /\ C11_IsHttpCall(e) ->
            <<[kind |-> "http", url |-> e.args[1].s, http_method |-> e.func.attr]>>
      [] e.t \in {"Attribute", "Expr", "Assign"} /\ ~(e.t = "Attribute" /\ e.value.t = "Name") ->
            C11_Keys(e.value)
      [] e.t = "Call" /\ ~C11_IsHttpCall(e) ->
            C11_Keys(e.func)
      [] e.t = "Assert" /\ e.test.t = "Compare" ->
            C11_Keys(e.test.comparators[1]) \o C11_Keys(e.test.left)
      [] e.t \in {"With", "For"} ->
            C11_KeysOfBody(e.body)
      [] OTHER -> <<>>

C11_KeysOfBody(body) ==
    IF body = <<>> THEN <<>> ELSE C11_Keys(Head(body)) \o C11_KeysOfBody(Tail(body))

RECURSIVE C11_MeetsArglessHttpCall(_)
\* the walk comes to a call client.verb() on its way through the node
C11_MeetsArglessHttpCall(e) ==
    CASE e.t = "Attribute" /\ e.value.t = "Name" -> FALSE
      [] e.t = "Call" -> C11_IsArglessHttpCall(e)
                           \/ (~C11_IsHttpCall(e) /\ C11_MeetsArglessHttpCall(e.func))
      [] e.t \in {"Attribute", "Expr", "Assign"} /\ ~(e.t = "Attribute" /\ e.value.t = "Name") ->
            C11_MeetsArglessHttpCall(e.value)
      [] e.t = "Assert" /\ e.test.t = "Compare" ->
            \/ C11_MeetsArglessHttpCall(e.test.comparators[1])
            \/ C11_MeetsArglessHttpCall(e.test.left)
      [] e.t \in {"With", "For"} ->
            \E i \in 1..Len(e.body) : C11_MeetsArglessHttpCall(e.body[i])
      [] OTHER -> FALSE

C11_WitnessCompare ==
    /\ rs_pc = "returned"
    /\ rs_expr.t = "Assert"
    /\ Len(rs_result) = 2
    /\ rs_result[1].kind # rs_result[2].kind

\* a with block holding a for block: the keys of every statement
C11_WitnessBlock ==
    /\ rs_pc = "returned"
    /\ rs_expr.t = "With"
    /\ rs_expr.body[1].t = "For"
    /\ Len(rs_result) = 2

\* a known client and verb with a first argument that is no string: the
\* (receiver, verb) key
C11_WitnessNonString ==
    /\ rs_pc = "returned"
    /\ rs_expr = Expr(Call(Attribute(Name("client"), "post"), <<Num>>))
    /\ rs_result = <<DirectTest("client", "post")>>

\* no pattern: no key
C11_WitnessNoKey ==
    /\ rs_pc = "returned"
    /\ rs_expr = AssertStmt(Call(Attribute(Name("C"), "m"), <<>>))
    /\ rs_result = <<>>


(***************************************************************************)
(* C12                                                                     *)
(***************************************************************************)
C12_KeyOf(d) ==
    IF d.kind = "direct" THEN <<d.class_name, d.method_name>> ELSE <<d.http_method, d.url>>

\* the keys test method m yields, statement by statement
C12_KeysOfMethod(m) ==
    LET found == C11_KeysOfBody(m.body)
    IN  [j \in 1..Len(found) |-> C12_KeyOf(found[j])]

\* how many times test method m yields key k
C12_Count(m, k) ==
    Cardinality({j \in 1..Len(C12_KeysOfMethod(m)) : C12_KeysOfMethod(m)[j] = k})

C12_Repeat(e, n) == [i \in 1..n |-> e]

RECURSIVE C12_Entry(_, _)
\* the entry of key k after the first n test methods: one pair per discovery
C12_Entry(k, n) ==
    IF n = 0 THEN <<>>
    ELSE C12_Entry(k, n - 1)
         \o C12_Repeat(<<test_methods[n].test_path, test_methods[n].name>>,
                       C12_Count(test_methods[n], k))

RECURSIVE C12_EntryOnce(_, _)
\* the same with at most one pair per test method
C12_EntryOnce(k, n) ==
    IF n = 0 THEN <<>>
    ELSE C12_EntryOnce(k, n - 1)
         \o (IF C12_Count(test_methods[n], k) > 0
             THEN <<<<test_methods[n].test_path, test_methods[n].name>>>>
             ELSE <<>>)

C12_DiscoveredKeys(n) ==
    UNION {{C12_KeysOfMethod(test_methods[i])[j] :
                j \in 1..Len(C12_KeysOfMethod(test_methods[i]))} : i \in 1..n}

\* C12 as stated: the entry of every discovered key lists, in the order of the
\* test methods, the (test path, test name) of each test method that yields the
\* key, once per test method however often the method yields it.
C12_AppendOnlyDeduplicated ==
    cor_pc # "idle" =>
        /\ DOMAIN test_to_method_key_map = C12_DiscoveredKeys(tm_idx)
        /\ \A k \in DOMAIN test_to_method_key_map :
              test_to_method_key_map[k] = C12_EntryOnce(k, tm_idx)

\* C12: the map is append-only and ordered: the entry of every discovered key
\* lists, in the order of the test methods and of the discoveries within each,
\* one (test path, test name) pair per discovery, earlier pairs kept; a test
\* method that yields a key several times is listed that many times.
C12_AppendOnlyOrdered ==
    cor_pc # "idle" =>
        /\ DOMAIN test_to_method_key_map = C12_DiscoveredKeys(tm_idx)
        /\ \A k \in DOMAIN test_to_method_key_map :
              test_to_method_key_map[k] = C12_Entry(k, tm_idx)

\* a with block posting to /sign twice, then a second test posting once
C12_Witness ==
    /\ tm_idx = 2
    /\ test_methods[1].body = <<With(<<Expr(PostSign), Expr(PostSign)>>)>>
    /\ <<"post", "/sign">> \in DOMAIN test_to_method_key_map
    /\ test_to_method_key_map[<<"post", "/sign">>] =
          <<<<test_methods[1].test_path, "test_1">>,
            <<test_methods[1].test_path, "test_1">>,
            <<test_methods[2].test_path, "test_2">>>>


(***************************************************************************)
(* C13                                                                     *)
(***************************************************************************)
\* C13: get_test_key_to_snippet_map raises on no test body; a call on a known
\* HTTP client with a known verb and no argument is passed over as no match
\* of the HTTP pattern.
C13_NeverRaises == cor_pc # "raised_map"

=============================================================================
